---- MODULE Spec2Model ----
(***************************************************************************)
(* Model of ma/context_alloc_handler.hpp: the two handler wrappers         *)
(* context_alloc_handler and explicit_context_alloc_handler.               *)
(*                                                                         *)
(* A wrapper stores a context and a handler.  The Asio customization hooks *)
(* (asio_handler_allocate, asio_handler_deallocate, asio_handler_invoke,   *)
(* asio_handler_is_continuation) and operator() are one action each, per   *)
(* wrapper class.  Every call a wrapper makes on its context or on its     *)
(* handler is recorded, with the object it was applied to, in `trace`;     *)
(* `op` is the wrapper operation as its caller saw it.                     *)
(***************************************************************************)
EXTENDS Integers, Sequences, FiniteSets

VARIABLES
  wrapper,   \* the wrapper object: [class, context_, handler_]
  live,      \* blocks handed out and not yet taken back, each with the
             \* object whose allocation strategy issued it
  held,      \* the blocks the wrapper's caller obtained through the wrapper
             \* and has not released through it
  op,        \* the last wrapper operation, as seen by its caller
  trace      \* the calls that operation made on the context / the handler

vars == <<wrapper, live, held, op, trace>>

\* ---------------------------------------------------------------- bounds
NumContexts  == 2
NumHandlers  == 2
NumValues    == 3
NumFunctions == 2
MaxAddr      == 2
MaxSize      == 2

\* operator() is overloaded for 0 .. 5 arguments
MaxArity == 5

Contexts  == {<<"context", i>>  : i \in 1..NumContexts}
Handlers  == {<<"handler", i>>  : i \in 1..NumHandlers}
Values    == {<<"value", i>>    : i \in 1..NumValues}
Functions == {<<"function", i>> : i \in 1..NumFunctions}
Pointers  == 1..MaxAddr
Sizes     == 1..MaxSize

\* the argument lists a caller passes to operator(): 0 .. MaxArity values
\* taken in cyclic order from any starting value, so that neighbouring
\* arguments of one call differ
ArgLists  ==
  {[i \in 1..n |-> <<"value", ((k + i - 1) % NumValues) + 1>>]
     : n \in 0..MaxArity, k \in 0..(NumValues - 1)}

CAH  == "context_alloc_handler"
ECAH == "explicit_context_alloc_handler"

\* ------------------------------------------------- context and handler
\* What the objects a wrapper stores can do when a hook or a call is applied
\* to them.  Each operator is the set of possible call records: the object
\* the call was applied to, its arguments, and how it ended.

\* addresses not handed out by any allocation strategy
FreePointers == Pointers \ {b.pointer : b \in live}

\* the object that issued the live block at `pointer` (<<"none", 0>> if none)
Issuer(pointer) ==
  IF \E b \in live : b.pointer = pointer
  THEN (CHOOSE b \in live : b.pointer = pointer).issuer
  ELSE <<"none", 0>>

\* ma_handler_alloc_helpers::allocate(size, target): asio_handler_allocate
\* applied to target; returns a fresh block or throws
allocate(size, target) ==
  {[fn |-> "asio_handler_allocate", target |-> target, args |-> <<size>>,
    outcome |-> "returned", result |-> p] : p \in FreePointers}
  \cup
  {[fn |-> "asio_handler_allocate", target |-> target, args |-> <<size>>,
    outcome |-> "threw", result |-> 0]}

\* ma_handler_alloc_helpers::deallocate(pointer, size, target):
\* asio_handler_deallocate applied to target
deallocate(pointer, size, target) ==
  {[fn |-> "asio_handler_deallocate", target |-> target,
    args |-> <<pointer, size>>, outcome |-> o, issuer |-> Issuer(pointer)]
     : o \in {"returned", "threw"}}

\* ma_handler_invoke_helpers::invoke(function, target): asio_handler_invoke
\* applied to target, which dispatches the function
invoke(function, target) ==
  {[fn |-> "asio_handler_invoke", target |-> target, args |-> <<function>>,
    outcome |-> o] : o \in {"returned", "threw"}}

\* ma_handler_cont_helpers::is_continuation(target)
is_continuation(target) ==
  {[fn |-> "asio_handler_is_continuation", target |-> target, args |-> <<>>,
    outcome |-> "returned", result |-> r] : r \in BOOLEAN}

\* target(args...): the function call operator of a stored handler
call(target, args) ==
  {[fn |-> "operator()", target |-> target, args |-> args, outcome |-> o]
     : o \in {"returned", "threw"}}

\* the heap after the call recorded in e: a block is taken back only by the
\* object that issued it
Heap(e) ==
  IF e.fn = "asio_handler_allocate" /\ e.outcome = "returned"
  THEN live \cup {[pointer |-> e.result, size |-> e.args[1],
                   issuer |-> e.target]}
  ELSE IF e.fn = "asio_handler_deallocate" /\ e.outcome = "returned"
  THEN live \ {[pointer |-> e.args[1], size |-> e.args[2],
                issuer |-> e.target]}
  ELSE live

\* the caller's blocks after the wrapper operation that made the call e
Held(e) ==
  IF e.fn = "asio_handler_allocate" /\ e.outcome = "returned"
  THEN held \cup {<<e.result, e.args[1]>>}
  ELSE IF e.fn = "asio_handler_deallocate" /\ e.outcome = "returned"
  THEN held \ {<<e.args[1], e.args[2]>>}
  ELSE held

\* ------------------------------------------------------------ wrappers

context_alloc_handler(context, handler) ==
  [class |-> CAH, context_ |-> context, handler_ |-> handler]

make_context_alloc_handler(context, handler) ==
  context_alloc_handler(context, handler)

explicit_context_alloc_handler(context, handler) ==
  [class |-> ECAH, context_ |-> context, handler_ |-> handler]

make_explicit_context_alloc_handler(context, handler) ==
  explicit_context_alloc_handler(context, handler)

Init ==
  /\ \E c \in Contexts, h \in Handlers :
       \/ wrapper = make_context_alloc_handler(c, h)
       \/ wrapper = make_explicit_context_alloc_handler(c, h)
  /\ live = {}
  /\ held = {}
  /\ op = [fn |-> "none"]
  /\ trace = <<>>

\* asio_handler_allocate with the handler's allocation strategy in place of
\* the context's
asio_handler_allocate_from_handler(size) ==
  /\ wrapper.class = CAH
  /\ \E e \in allocate(size, wrapper.handler_) :
    /\ trace' = <<e>>
    /\ op' = [fn |-> "asio_handler_allocate", args |-> <<size>>,
              outcome |-> e.outcome, result |-> e.result]
    /\ live' = Heap(e)
    /\ held' = Held(e)
    /\ UNCHANGED wrapper

\* context_alloc_handler: friend void* asio_handler_allocate(std::size_t size,
\*     this_type* context)
asio_handler_allocate(size) ==
  /\ wrapper.class = CAH
  /\ \E e \in allocate(size, wrapper.context_) :
    /\ trace' = <<e>>
    /\ op' = [fn |-> "asio_handler_allocate", args |-> <<size>>,
              outcome |-> e.outcome, result |-> e.result]
    /\ live' = Heap(e)
    /\ held' = Held(e)
    /\ UNCHANGED wrapper

\* context_alloc_handler: friend void asio_handler_deallocate(void* pointer,
\*     std::size_t size, this_type* context)
asio_handler_deallocate(pointer, size) ==
  /\ wrapper.class = CAH
  /\ \E e \in deallocate(pointer, size, wrapper.context_) :
    /\ trace' = <<e>>
    /\ op' = [fn |-> "asio_handler_deallocate", args |-> <<pointer, size>>,
              outcome |-> e.outcome]
    /\ live' = Heap(e)
    /\ held' = Held(e)
    /\ UNCHANGED wrapper

\* asio_handler_invoke with the context's execution strategy in place of
\* the handler's
asio_handler_invoke_by_context(function) ==
  /\ wrapper.class = CAH
  /\ \E e \in invoke(function, wrapper.context_) :
    /\ trace' = <<e>>
    /\ op' = [fn |-> "asio_handler_invoke", args |-> <<function>>,
              outcome |-> e.outcome]
    /\ UNCHANGED <<wrapper, live, held>>

\* context_alloc_handler: friend void asio_handler_invoke(Function,
\* this_type* context),
\* all three overloads (forwarding reference, Function&, const Function&)
asio_handler_invoke(function) ==
  /\ wrapper.class = CAH
  /\ \E e \in invoke(function, wrapper.handler_) :
    /\ trace' = <<e>>
    /\ op' = [fn |-> "asio_handler_invoke", args |-> <<function>>,
              outcome |-> e.outcome]
    /\ UNCHANGED <<wrapper, live, held>>

\* context_alloc_handler: friend bool
\* asio_handler_is_continuation(this_type* context)
asio_handler_is_continuation ==
  /\ wrapper.class = CAH
  /\ \E e \in is_continuation(wrapper.handler_) :
    /\ trace' = <<e>>
    /\ op' = [fn |-> "asio_handler_is_continuation", args |-> <<>>,
              outcome |-> e.outcome, result |-> e.result]
    /\ UNCHANGED <<wrapper, live, held>>

\* the argument list each overload of context_alloc_handler::operator()
\* passes to handler_, one overload per argument count
operator_call_args(args) ==
  CASE Len(args) = 0 -> <<>>
    [] Len(args) = 1 -> <<args[1]>>
    [] Len(args) = 2 -> <<args[1], args[2]>>
    [] Len(args) = 3 -> <<args[1], args[2], args[3]>>
    [] Len(args) = 4 -> <<args[1], args[2], args[3], args[4]>>
    [] Len(args) = 5 -> <<args[1], args[2], args[3], args[4], args[5]>>

\* the const overloads with arg4 and arg5 exchanged in the last one
operator_call_const_args_swapped(args) ==
  CASE Len(args) = 0 -> <<>>
    [] Len(args) = 1 -> <<args[1]>>
    [] Len(args) = 2 -> <<args[1], args[2]>>
    [] Len(args) = 3 -> <<args[1], args[2], args[3]>>
    [] Len(args) = 4 -> <<args[1], args[2], args[3], args[4]>>
    [] Len(args) = 5 -> <<args[1], args[2], args[3], args[5], args[4]>>

\* the same for the const overloads of context_alloc_handler::operator()
operator_call_const_args(args) ==
  CASE Len(args) = 0 -> <<>>
    [] Len(args) = 1 -> <<args[1]>>
    [] Len(args) = 2 -> <<args[1], args[2]>>
    [] Len(args) = 3 -> <<args[1], args[2], args[3]>>
    [] Len(args) = 4 -> <<args[1], args[2], args[3], args[4]>>
    [] Len(args) = 5 -> <<args[1], args[2], args[3], args[4], args[5]>>

\* void context_alloc_handler::operator()(Arg1 .. ArgN)
operator_call(args) ==
  /\ wrapper.class = CAH
  /\ \E e \in call(wrapper.handler_, operator_call_args(args)) :
    /\ trace' = <<e>>
    /\ op' = [fn |-> "operator()", const |-> FALSE, args |-> args,
              outcome |-> e.outcome]
    /\ UNCHANGED <<wrapper, live, held>>

\* void context_alloc_handler::operator()(Arg1 .. ArgN) const
operator_call_const(args) ==
  /\ wrapper.class = CAH
  /\ \E e \in call(wrapper.handler_, operator_call_const_args(args)) :
    /\ trace' = <<e>>
    /\ op' = [fn |-> "operator()", const |-> TRUE, args |-> args,
              outcome |-> e.outcome]
    /\ UNCHANGED <<wrapper, live, held>>

\* asio_handler_allocate that falls back to the handler's allocation strategy
\* when the context's throws
explicit_asio_handler_allocate_fallback(size) ==
  /\ wrapper.class = ECAH
  /\ \E e \in allocate(size, wrapper.context_) :
     \E f \in allocate(size, wrapper.handler_) :
       LET r == IF e.outcome = "returned" THEN e ELSE f IN
       /\ trace' = IF e.outcome = "returned" THEN <<e>> ELSE <<e, f>>
       /\ op' = [fn |-> "asio_handler_allocate", args |-> <<size>>,
                 outcome |-> r.outcome, result |-> r.result]
       /\ live' = Heap(r)
       /\ held' = Held(r)
       /\ UNCHANGED wrapper

\* explicit_context_alloc_handler: friend void* asio_handler_allocate(
\*     std::size_t size, this_type* context)
explicit_asio_handler_allocate(size) ==
  /\ wrapper.class = ECAH
  /\ \E e \in allocate(size, wrapper.context_) :
    /\ trace' = <<e>>
    /\ op' = [fn |-> "asio_handler_allocate", args |-> <<size>>,
              outcome |-> e.outcome, result |-> e.result]
    /\ live' = Heap(e)
    /\ held' = Held(e)
    /\ UNCHANGED wrapper

\* asio_handler_deallocate with the handler's deallocation strategy in place
\* of the context's
explicit_asio_handler_deallocate_to_handler(pointer, size) ==
  /\ wrapper.class = ECAH
  /\ \E e \in deallocate(pointer, size, wrapper.handler_) :
    /\ trace' = <<e>>
    /\ op' = [fn |-> "asio_handler_deallocate", args |-> <<pointer, size>>,
              outcome |-> e.outcome]
    /\ live' = Heap(e)
    /\ held' = Held(e)
    /\ UNCHANGED wrapper

\* explicit_context_alloc_handler: friend void asio_handler_deallocate(
\*     void* pointer, std::size_t size, this_type* context)
explicit_asio_handler_deallocate(pointer, size) ==
  /\ wrapper.class = ECAH
  /\ \E e \in deallocate(pointer, size, wrapper.context_) :
    /\ trace' = <<e>>
    /\ op' = [fn |-> "asio_handler_deallocate", args |-> <<pointer, size>>,
              outcome |-> e.outcome]
    /\ live' = Heap(e)
    /\ held' = Held(e)
    /\ UNCHANGED wrapper

\* explicit_asio_handler_invoke with the context's execution strategy in
\* place of the handler's
explicit_asio_handler_invoke_by_context(function) ==
  /\ wrapper.class = ECAH
  /\ \E e \in invoke(function, wrapper.context_) :
    /\ trace' = <<e>>
    /\ op' = [fn |-> "asio_handler_invoke", args |-> <<function>>,
              outcome |-> e.outcome]
    /\ UNCHANGED <<wrapper, live, held>>

\* explicit_context_alloc_handler: friend void asio_handler_invoke(Function,
\* this_type* context),
\* all three overloads (forwarding reference, Function&, const Function&)
explicit_asio_handler_invoke(function) ==
  /\ wrapper.class = ECAH
  /\ \E e \in invoke(function, wrapper.handler_) :
    /\ trace' = <<e>>
    /\ op' = [fn |-> "asio_handler_invoke", args |-> <<function>>,
              outcome |-> e.outcome]
    /\ UNCHANGED <<wrapper, live, held>>

\* asio_handler_is_continuation that asks the context
explicit_asio_handler_is_continuation_of_context ==
  /\ wrapper.class = ECAH
  /\ \E e \in is_continuation(wrapper.context_) :
    /\ trace' = <<e>>
    /\ op' = [fn |-> "asio_handler_is_continuation", args |-> <<>>,
              outcome |-> e.outcome, result |-> e.result]
    /\ UNCHANGED <<wrapper, live, held>>

\* explicit_context_alloc_handler: friend bool
\* asio_handler_is_continuation(this_type* context)
explicit_asio_handler_is_continuation ==
  /\ wrapper.class = ECAH
  /\ \E e \in is_continuation(wrapper.handler_) :
    /\ trace' = <<e>>
    /\ op' = [fn |-> "asio_handler_is_continuation", args |-> <<>>,
              outcome |-> e.outcome, result |-> e.result]
    /\ UNCHANGED <<wrapper, live, held>>

\* the overloads with context_ left out of the one-argument overload
explicit_operator_call_args_no_context(args) ==
  CASE Len(args) = 0 -> <<wrapper.context_>>
    [] Len(args) = 1 -> <<args[1]>>
    [] Len(args) = 2 -> <<wrapper.context_, args[1], args[2]>>
    [] Len(args) = 3 -> <<wrapper.context_, args[1], args[2], args[3]>>
    [] Len(args) = 4 -> <<wrapper.context_, args[1], args[2], args[3],
                          args[4]>>
    [] Len(args) = 5 -> <<wrapper.context_, args[1], args[2], args[3],
                          args[4], args[5]>>

\* the argument list each overload of explicit_context_alloc_handler::operator()
\* passes to handler_, one overload per argument count
explicit_operator_call_args(args) ==
  CASE Len(args) = 0 -> <<wrapper.context_>>
    [] Len(args) = 1 -> <<wrapper.context_, args[1]>>
    [] Len(args) = 2 -> <<wrapper.context_, args[1], args[2]>>
    [] Len(args) = 3 -> <<wrapper.context_, args[1], args[2], args[3]>>
    [] Len(args) = 4 -> <<wrapper.context_, args[1], args[2], args[3],
                          args[4]>>
    [] Len(args) = 5 -> <<wrapper.context_, args[1], args[2], args[3],
                          args[4], args[5]>>

\* the same for the const overloads of
\* explicit_context_alloc_handler::operator()
explicit_operator_call_const_args(args) ==
  CASE Len(args) = 0 -> <<wrapper.context_>>
    [] Len(args) = 1 -> <<wrapper.context_, args[1]>>
    [] Len(args) = 2 -> <<wrapper.context_, args[1], args[2]>>
    [] Len(args) = 3 -> <<wrapper.context_, args[1], args[2], args[3]>>
    [] Len(args) = 4 -> <<wrapper.context_, args[1], args[2], args[3],
                          args[4]>>
    [] Len(args) = 5 -> <<wrapper.context_, args[1], args[2], args[3],
                          args[4], args[5]>>

\* void explicit_context_alloc_handler::operator()(Arg1 .. ArgN)
explicit_operator_call(args) ==
  /\ wrapper.class = ECAH
  /\ \E e \in call(wrapper.handler_, explicit_operator_call_args(args)) :
    /\ trace' = <<e>>
    /\ op' = [fn |-> "operator()", const |-> FALSE, args |-> args,
              outcome |-> e.outcome]
    /\ UNCHANGED <<wrapper, live, held>>

\* void explicit_context_alloc_handler::operator()(Arg1 .. ArgN) const
explicit_operator_call_const(args) ==
  /\ wrapper.class = ECAH
  /\ \E e \in call(wrapper.handler_, explicit_operator_call_const_args(args)) :
    /\ trace' = <<e>>
    /\ op' = [fn |-> "operator()", const |-> TRUE, args |-> args,
              outcome |-> e.outcome]
    /\ UNCHANGED <<wrapper, live, held>>

Next ==
  \/ \E size \in Sizes : asio_handler_allocate(size)
  \/ \E size \in Sizes : explicit_asio_handler_allocate(size)
  \/ \E b \in held : asio_handler_deallocate(b[1], b[2])
  \/ \E b \in held : explicit_asio_handler_deallocate(b[1], b[2])
  \/ \E function \in Functions : asio_handler_invoke(function)
  \/ \E function \in Functions : explicit_asio_handler_invoke(function)
  \/ asio_handler_is_continuation
  \/ explicit_asio_handler_is_continuation
  \/ \E args \in ArgLists : operator_call(args)
  \/ \E args \in ArgLists : operator_call_const(args)
  \/ \E args \in ArgLists : explicit_operator_call(args)
  \/ \E args \in ArgLists : explicit_operator_call_const(args)

Spec == Init /\ [][Next]_vars

TypeOK ==
  /\ wrapper.class \in {CAH, ECAH}
  /\ wrapper.context_ \in Contexts
  /\ wrapper.handler_ \in Handlers
  /\ \A b \in live : b.pointer \in Pointers /\ b.size \in Sizes
  /\ Len(trace) <= 1

\* ---------------------------------------------------------- properties

\* the blocks whose issuer is o
IssuedBy(o) == {<<b.pointer, b.size>> : b \in {x \in live : x.issuer = o}}

\* C1: asio_handler_allocate(size, wrapper), for both wrappers, is one call
\* of the allocation strategy of the stored context with the same size, the
\* wrapper returns the pointer the context returned, and no block is ever
\* issued by the allocation strategy of a wrapped handler.
C1_AllocateUsesContext ==
  /\ op.fn = "asio_handler_allocate" =>
       /\ Len(trace) = 1
       /\ trace[1].fn = "asio_handler_allocate"
       /\ trace[1].target = wrapper.context_
       /\ trace[1].args = op.args
       /\ op.outcome = "returned" =>
            /\ trace[1].outcome = "returned"
            /\ op.result = trace[1].result
            /\ <<op.result, op.args[1]>> \in IssuedBy(wrapper.context_)
  /\ \A b \in live : b.issuer \notin Handlers

C1_Witness ==
  /\ op.fn = "asio_handler_allocate"
  /\ wrapper.class = CAH
  /\ op.outcome = "returned"
  /\ op.args = <<2>>
  /\ Cardinality(held) = 2

\* C2: asio_handler_deallocate(pointer, size, wrapper), for both wrappers, is
\* one call of the deallocation strategy of the stored context with that
\* pointer and size; the block goes back to the object that issued it, a
\* released block is no longer outstanding, the outstanding blocks are
\* exactly the ones the caller still holds, and a handler never receives one.
C2_DeallocateUsesContext ==
  /\ op.fn = "asio_handler_deallocate" =>
       /\ Len(trace) = 1
       /\ trace[1].fn = "asio_handler_deallocate"
       /\ trace[1].target = wrapper.context_
       /\ trace[1].args = op.args
       /\ trace[1].issuer = trace[1].target
       /\ trace[1].target \notin Handlers
       /\ op.outcome = "returned" =>
            \A b \in live : b.pointer # op.args[1]
  /\ held = IssuedBy(wrapper.context_)
  /\ {<<b.pointer, b.size>> : b \in live} = held

C2_Witness ==
  /\ op.fn = "asio_handler_deallocate"
  /\ wrapper.class = ECAH
  /\ op.outcome = "returned"
  /\ held # {}

\* C3: asio_handler_invoke(function, wrapper), for both wrappers, is exactly
\* one application of asio_handler_invoke to the wrapped handler with the
\* same function object, and asio_handler_invoke is never applied to a
\* context.
C3_InvokeUsesHandler ==
  /\ op.fn = "asio_handler_invoke" =>
       /\ Len(trace) = 1
       /\ trace[1].fn = "asio_handler_invoke"
       /\ trace[1].target = wrapper.handler_
       /\ trace[1].args = op.args
  /\ \A i \in 1..Len(trace) :
       trace[i].fn = "asio_handler_invoke" => trace[i].target \notin Contexts

C3_Witness ==
  /\ op.fn = "asio_handler_invoke"
  /\ wrapper.class = CAH
  /\ op.args = <<<<"function", 2>>>>
  /\ op.outcome = "returned"

\* C4 as stated: a function object dispatched through the wrapper is
\* dispatched by the execution strategy of the context.
C4_DispatchedByContext ==
  op.fn = "asio_handler_invoke" =>
    \A i \in 1..Len(trace) : trace[i].target = wrapper.context_

\* C4 amended: the execution strategy is not overridden: the object that
\* dispatches a function is the wrapped handler and is not the object that
\* serves the wrapper's allocations, which is the stored context.
C4_DispatchedByHandlerNotContext ==
  LET allocator     == wrapper.context_
      dispatcher(e) == e.target
  IN  /\ op.fn = "asio_handler_invoke" =>
           \A i \in 1..Len(trace) :
             /\ dispatcher(trace[i]) = wrapper.handler_
             /\ dispatcher(trace[i]) # allocator
      /\ op.fn \in {"asio_handler_allocate", "asio_handler_deallocate"} =>
           \A i \in 1..Len(trace) : trace[i].target = allocator
      /\ \A b \in live : b.issuer = allocator

C4_Witness ==
  /\ op.fn = "asio_handler_invoke"
  /\ wrapper.class = ECAH
  /\ Len(trace) = 1
  /\ trace[1].target = wrapper.handler_
  /\ held # {}

\* C5: context_alloc_handler::operator() with n arguments, const or not, is
\* exactly one call of the wrapped handler with the same n arguments in the
\* same order.
C5_CallForwardsArguments ==
  (op.fn = "operator()" /\ wrapper.class = CAH) =>
    /\ Len(trace) = 1
    /\ trace[1].fn = "operator()"
    /\ trace[1].target = wrapper.handler_
    /\ Len(trace[1].args) = Len(op.args)
    /\ \A i \in 1..Len(op.args) : trace[1].args[i] = op.args[i]

C5_Witness ==
  /\ op.fn = "operator()"
  /\ wrapper.class = CAH
  /\ op.const
  /\ Len(op.args) = MaxArity
  /\ op.args[4] # op.args[5]
  /\ op.outcome = "returned"

\* C6: explicit_context_alloc_handler::operator() with n arguments, const or
\* not, is exactly one call of the wrapped handler with n + 1 arguments: the
\* stored context, then the caller's arguments in order; that context is the
\* issuer of every block obtained through the wrapper.
C6_ExplicitCallPrependsContext ==
  (op.fn = "operator()" /\ wrapper.class = ECAH) =>
    /\ Len(trace) = 1
    /\ trace[1].fn = "operator()"
    /\ trace[1].target = wrapper.handler_
    /\ Len(trace[1].args) = Len(op.args) + 1
    /\ trace[1].args[1] = wrapper.context_
    /\ \A i \in 1..Len(op.args) : trace[1].args[i + 1] = op.args[i]
    /\ held \subseteq IssuedBy(trace[1].args[1])

C6_Witness ==
  /\ op.fn = "operator()"
  /\ wrapper.class = ECAH
  /\ ~op.const
  /\ Len(op.args) = MaxArity
  /\ held # {}
  /\ op.outcome = "returned"

\* C7: every wrapper operation ends the way its single call on the context or
\* the handler ended: a failure is the outcome of the operation, nothing is
\* called a second time or on another object, a failed operation leaves the
\* heap as it was, and no operation changes the stored context and handler.
C7_FailurePassesThrough ==
  /\ [](op.fn # "none" =>
          /\ Len(trace) = 1
          /\ op.outcome = trace[1].outcome
          /\ op.fn = trace[1].fn
          /\ trace[1].target \in {wrapper.context_, wrapper.handler_})
  /\ [][/\ wrapper' = wrapper
        /\ (op'.outcome = "threw" => live' = live /\ held' = held)]_vars

C7_Witness ==
  /\ op.fn = "asio_handler_allocate"
  /\ wrapper.class = ECAH
  /\ op.outcome = "threw"
  /\ FreePointers # {}

\* C8: asio_handler_is_continuation(wrapper), for both wrappers, returns the
\* value the wrapped handler's continuation query returned, in every state
\* the earlier operations can lead to; the context is not asked.
C8_ContinuationOfHandler ==
  op.fn = "asio_handler_is_continuation" =>
    /\ Len(trace) = 1
    /\ trace[1].fn = "asio_handler_is_continuation"
    /\ trace[1].target = wrapper.handler_
    /\ trace[1].target \notin Contexts
    /\ op.result = trace[1].result

C8_Witness ==
  /\ op.fn = "asio_handler_is_continuation"
  /\ wrapper.class = ECAH
  /\ op.result = TRUE
  /\ held # {}

====
